---- MODULE Spec2Model ----
(***************************************************************************)
(* FontRenderingEngine (src/script.js): the control state kept by the      *)
(* engine and the DOM controls, the handlers that change it, and the       *)
(* computations of updateRendering and exportCSS.                          *)
(*                                                                         *)
(* Representation.  A text is the sequence of its UTF-16 code units, as a  *)
(* JavaScript string is.  The values of the numeric controls are decimal   *)
(* strings in the DOM; the model keeps the number they denote, scaled to   *)
(* an integer: fontSize and wordSpacing in px, letterSpacing in tenths of  *)
(* a px, lineHeight in hundredths.  Products with 0.9, 0.95 and 0.8 are    *)
(* kept exactly in a finer unit, named where they are computed; binary     *)
(* floating-point rounding is not modelled.                                *)
(***************************************************************************)
EXTENDS Integers, Sequences, FiniteSets, TLC

VARIABLES
  textInput,          \* textInput.value
  controlValue,       \* .value of fontSelect, fontSize, fontWeight, letterSpacing, lineHeight, wordSpacing
  checked,            \* .checked of the feature, hyphenation and optimizeLayout checkboxes
  offsetWidth,        \* renderedText.offsetWidth
  activeFeatures,     \* this.activeFeatures: a Set, kept in its insertion order
  hyphenation,        \* this.hyphenation
  layoutOptimization, \* this.layoutOptimization
  currentAlignment,   \* this.currentAlignment
  alignButtons,       \* the .align-btn buttons (by data-align) that carry the class 'active'
  layoutScore,        \* this.layoutScore
  style,              \* renderedText.style
  textContent,        \* renderedText.textContent
  metrics,            \* what calculateTextMetrics returned to updateMetrics
  activeCount,        \* textContent of the activeFeatures counter
  timers,             \* the timeouts that are set and have not fired (see Timeouts)
  sinceEvent,         \* the time since the last event on each control with a timeout, up to its wait
  download,           \* the file handed to downloadFile by the step just taken
  isFullscreen,       \* this.isFullscreen
  fullscreenMode,     \* whether .rendering-area carries the class 'fullscreen-mode'
  fullscreenBtn,      \* textContent and aria-label of the fullscreenToggle button
  valueDisplay,       \* what the value displays of the range inputs show (without the unit)
  display,            \* the number each metric display on the page shows
  animations,         \* the animateValue callbacks registered with requestAnimationFrame, in order
  isMobileControlsOpen, \* this.isMobileControlsOpen
  controlsWrapper,    \* the class 'show' and the aria-hidden attribute of the controlsWrapper element
  toggleBtn,          \* the class 'active' and the aria-expanded attribute of the toggleControls button
  innerWidth          \* window.innerWidth

vars == << textInput, controlValue, checked, offsetWidth, activeFeatures, hyphenation,
           layoutOptimization, currentAlignment, alignButtons, layoutScore, style,
           textContent, metrics, activeCount, timers, sinceEvent, download,
           isFullscreen,
           fullscreenMode, fullscreenBtn, valueDisplay, display, animations,
           isMobileControlsOpen, controlsWrapper, toggleBtn, innerWidth >>

\* The state of the mobile controls menu and the width it depends on
mobileControls == << isMobileControlsOpen, controlsWrapper, toggleBtn, innerWidth >>

(***************************************************************************)
(* Texts                                                                   *)
(***************************************************************************)
\* sampleTexts.pangram, script.js:28 (85 code units)
Sample_pangram ==
  << 84, 104, 101, 32, 113, 117, 105, 99, 107, 32, 98, 114, 111, 119, 110, 32, 102, 111, 120,
     32, 106, 117, 109, 112, 115, 32, 111, 118, 101, 114, 32, 116, 104, 101, 32, 108, 97, 122,
     121, 32, 100, 111, 103, 46, 32, 80, 65, 67, 75, 32, 77, 89, 32, 66, 79, 88, 32, 87, 73,
     84, 72, 32, 70, 73, 86, 69, 32, 68, 79, 90, 69, 78, 32, 76, 73, 81, 85, 79, 82, 32, 74,
     85, 71, 83, 33 >>

\* sampleTexts.lorem, script.js:29 (334 code units)
Sample_lorem ==
  << 76, 111, 114, 101, 109, 32, 105, 112, 115, 117, 109, 32, 100, 111, 108, 111, 114, 32,
     115, 105, 116, 32, 97, 109, 101, 116, 44, 32, 99, 111, 110, 115, 101, 99, 116, 101, 116,
     117, 114, 32, 97, 100, 105, 112, 105, 115, 99, 105, 110, 103, 32, 101, 108, 105, 116, 46,
     32, 83, 101, 100, 32, 100, 111, 32, 101, 105, 117, 115, 109, 111, 100, 32, 116, 101, 109,
     112, 111, 114, 32, 105, 110, 99, 105, 100, 105, 100, 117, 110, 116, 32, 117, 116, 32,
     108, 97, 98, 111, 114, 101, 32, 101, 116, 32, 100, 111, 108, 111, 114, 101, 32, 109, 97,
     103, 110, 97, 32, 97, 108, 105, 113, 117, 97, 46, 32, 85, 116, 32, 101, 110, 105, 109,
     32, 97, 100, 32, 109, 105, 110, 105, 109, 32, 118, 101, 110, 105, 97, 109, 44, 32, 113,
     117, 105, 115, 32, 110, 111, 115, 116, 114, 117, 100, 32, 101, 120, 101, 114, 99, 105,
     116, 97, 116, 105, 111, 110, 32, 117, 108, 108, 97, 109, 99, 111, 32, 108, 97, 98, 111,
     114, 105, 115, 32, 110, 105, 115, 105, 32, 117, 116, 32, 97, 108, 105, 113, 117, 105,
     112, 32, 101, 120, 32, 101, 97, 32, 99, 111, 109, 109, 111, 100, 111, 32, 99, 111, 110,
     115, 101, 113, 117, 97, 116, 46, 32, 68, 117, 105, 115, 32, 97, 117, 116, 101, 32, 105,
     114, 117, 114, 101, 32, 100, 111, 108, 111, 114, 32, 105, 110, 32, 114, 101, 112, 114,
     101, 104, 101, 110, 100, 101, 114, 105, 116, 32, 105, 110, 32, 118, 111, 108, 117, 112,
     116, 97, 116, 101, 32, 118, 101, 108, 105, 116, 32, 101, 115, 115, 101, 32, 99, 105, 108,
     108, 117, 109, 32, 100, 111, 108, 111, 114, 101, 32, 101, 117, 32, 102, 117, 103, 105,
     97, 116, 32, 110, 117, 108, 108, 97, 32, 112, 97, 114, 105, 97, 116, 117, 114, 46 >>

\* sampleTexts.typography, script.js:30 (267 code units)
Sample_typography ==
  << 84, 121, 112, 111, 103, 114, 97, 112, 104, 121, 32, 105, 115, 32, 116, 104, 101, 32, 97,
     114, 116, 32, 97, 110, 100, 32, 116, 101, 99, 104, 110, 105, 113, 117, 101, 32, 111, 102,
     32, 97, 114, 114, 97, 110, 103, 105, 110, 103, 32, 116, 121, 112, 101, 32, 116, 111, 32,
     109, 97, 107, 101, 32, 119, 114, 105, 116, 116, 101, 110, 32, 108, 97, 110, 103, 117, 97,
     103, 101, 32, 108, 101, 103, 105, 98, 108, 101, 44, 32, 114, 101, 97, 100, 97, 98, 108,
     101, 44, 32, 97, 110, 100, 32, 97, 112, 112, 101, 97, 108, 105, 110, 103, 46, 32, 76,
     105, 103, 97, 116, 117, 114, 101, 115, 58, 32, 102, 105, 32, 102, 108, 32, 102, 102, 105,
     32, 102, 102, 108, 32, 102, 116, 46, 32, 75, 101, 114, 110, 105, 110, 103, 32, 112, 97,
     105, 114, 115, 58, 32, 65, 86, 32, 84, 97, 32, 87, 101, 32, 89, 111, 46, 32, 78, 117,
     109, 98, 101, 114, 115, 58, 32, 49, 50, 51, 52, 53, 54, 55, 56, 57, 48, 32, 189, 32, 190,
     32, 188, 32, 8539, 46, 32, 83, 109, 97, 108, 108, 32, 99, 97, 112, 115, 58, 32, 76, 79,
     82, 69, 77, 32, 73, 80, 83, 85, 77, 32, 100, 111, 108, 111, 114, 32, 115, 105, 116, 32,
     97, 109, 101, 116, 44, 32, 67, 79, 78, 83, 69, 67, 84, 69, 84, 85, 82, 32, 97, 100, 105,
     112, 105, 115, 99, 105, 110, 103, 32, 101, 108, 105, 116, 46 >>

\* sampleTexts.numbers, script.js:31 (184 code units)
Sample_numbers ==
  << 82, 101, 103, 117, 108, 97, 114, 32, 110, 117, 109, 98, 101, 114, 115, 58, 32, 49, 50,
     51, 52, 53, 54, 55, 56, 57, 48, 46, 32, 79, 108, 100, 115, 116, 121, 108, 101, 32, 102,
     105, 103, 117, 114, 101, 115, 58, 32, 49, 50, 51, 52, 53, 54, 55, 56, 57, 48, 46, 32, 84,
     97, 98, 117, 108, 97, 114, 32, 110, 117, 109, 98, 101, 114, 115, 58, 32, 49, 50, 51, 52,
     53, 54, 55, 56, 57, 48, 46, 32, 70, 114, 97, 99, 116, 105, 111, 110, 115, 58, 32, 49, 47,
     50, 32, 51, 47, 52, 32, 53, 47, 56, 32, 55, 47, 49, 54, 32, 49, 51, 47, 51, 50, 46, 32,
     83, 117, 112, 101, 114, 115, 99, 114, 105, 112, 116, 58, 32, 69, 61, 109, 99, 178, 32,
     72, 8322, 79, 32, 67, 79, 8322, 46, 32, 77, 97, 116, 104, 101, 109, 97, 116, 105, 99, 97,
     108, 32, 115, 121, 109, 98, 111, 108, 115, 58, 32, 8721, 8710, 960, 8734, 177, 8800,
     8804, 8805, 8747, 8730, 8706 >>

\* sampleTexts.ligatures, script.js:32 (194 code units)
Sample_ligatures ==
  << 84, 104, 101, 32, 111, 102, 102, 105, 99, 101, 32, 116, 114, 97, 102, 102, 105, 99, 32,
     119, 97, 115, 32, 97, 119, 102, 117, 108, 32, 100, 117, 114, 105, 110, 103, 32, 116, 104,
     101, 32, 115, 116, 97, 102, 102, 32, 109, 101, 101, 116, 105, 110, 103, 46, 32, 87, 101,
     32, 102, 108, 101, 119, 32, 116, 111, 32, 102, 105, 102, 116, 121, 32, 100, 105, 102,
     102, 101, 114, 101, 110, 116, 32, 112, 108, 97, 99, 101, 115, 32, 102, 111, 114, 32, 116,
     104, 101, 32, 99, 111, 110, 102, 101, 114, 101, 110, 99, 101, 46, 32, 84, 104, 101, 32,
     119, 97, 102, 102, 108, 101, 32, 119, 97, 115, 32, 118, 101, 114, 121, 32, 101, 102, 102,
     101, 99, 116, 105, 118, 101, 32, 102, 111, 114, 32, 98, 114, 101, 97, 107, 102, 97, 115,
     116, 44, 32, 97, 110, 100, 32, 116, 104, 101, 32, 99, 111, 102, 102, 101, 101, 32, 119,
     97, 115, 32, 112, 101, 114, 102, 101, 99, 116, 108, 121, 32, 115, 117, 102, 102, 105, 99,
     105, 101, 110, 116, 46 >>

\* placeholder of updateRendering, script.js:280 (53 code units)
Placeholder ==
  << 84, 121, 112, 101, 32, 121, 111, 117, 114, 32, 116, 101, 120, 116, 32, 104, 101, 114,
     101, 32, 116, 111, 32, 115, 101, 101, 32, 97, 100, 118, 97, 110, 99, 101, 100, 32, 102,
     111, 110, 116, 32, 114, 101, 110, 100, 101, 114, 105, 110, 103, 46, 46, 46 >>

sampleTexts ==
  [ pangram    |-> Sample_pangram,
    lorem      |-> Sample_lorem,
    typography |-> Sample_typography,
    numbers    |-> Sample_numbers,
    ligatures  |-> Sample_ligatures ]

Rep(c, n) == [i \in 1..n |-> c]

\* Math.max, Math.min on numbers
MathMax(a, b) == IF a >= b THEN a ELSE b
MathMin(a, b) == IF a <= b THEN a ELSE b
MathAbs(a) == IF a < 0 THEN -a ELSE a

\* Math.floor(n / d) and Math.ceil(n / d) for integers n, d with d # 0
MathFloorDiv(n, d) ==
  LET an == MathAbs(n)
      ad == MathAbs(d)
      q  == an \div ad
  IN  IF (n >= 0) = (d > 0) THEN q
      ELSE IF q * ad = an THEN -q ELSE -(q + 1)

MathCeilDiv(n, d) == -MathFloorDiv(-n, d)

(***************************************************************************)
(* Strings                                                                 *)
(***************************************************************************)
\* The code units matched by \s, which are those String.prototype.trim strips
IsWhiteSpace(c) ==
  \/ c = 32
  \/ c \in 9..13
  \/ c \in {160, 5760, 8232, 8233, 8239, 8287, 12288, 65279}
  \/ c \in 8192..8202

\* text.trim()
Trim(text) ==
  IF \A i \in 1..Len(text) : IsWhiteSpace(text[i]) THEN << >>
  ELSE LET first == CHOOSE i \in 1..Len(text) :
                      /\ ~IsWhiteSpace(text[i])
                      /\ \A j \in 1..(i - 1) : IsWhiteSpace(text[j])
           last  == CHOOSE i \in 1..Len(text) :
                      /\ ~IsWhiteSpace(text[i])
                      /\ \A j \in (i + 1)..Len(text) : IsWhiteSpace(text[j])
       IN  SubSeq(text, first, last)

\* SplitWhiteSpaceLength splitting at every white-space character, as
\* split(/\s/) does
SplitEachWhiteSpaceLength(text) ==
  Cardinality({i \in 1..Len(text) : IsWhiteSpace(text[i])}) + 1

\* text.split(/\s+/).length: one segment more than there are maximal runs of
\* white space (a run at either end leaves an empty segment there)
SplitWhiteSpaceLength(text) ==
  Cardinality({i \in 1..Len(text) :
                 IsWhiteSpace(text[i]) /\ (i = 1 \/ ~IsWhiteSpace(text[i - 1]))}) + 1

\* text.split('\n').length
SplitNewlineLength(text) ==
  Cardinality({i \in 1..Len(text) : text[i] = 10}) + 1

\* text.includes(lig)
Includes(text, lig) ==
  \E i \in 0..(Len(text) - Len(lig)) :
     \A k \in 1..Len(lig) : text[i + k] = lig[k]

\* array.join(', ')
RECURSIVE Join(_)
Join(parts) ==
  IF parts = << >> THEN ""
  ELSE IF Len(parts) = 1 THEN parts[1]
  ELSE parts[1] \o ", " \o Join(Tail(parts))

(***************************************************************************)
(* The engine's computations                                               *)
(***************************************************************************)
featureCheckboxes ==
  << "kerning", "ligatures", "smallCaps", "oldstyleNums", "tabularNums", "fractions" >>

FeatureTags == {featureCheckboxes[i] : i \in 1..Len(featureCheckboxes)}

featureMap ==
  [ kerning      |-> "\"kern\" 1",
    ligatures    |-> "\"liga\" 1, \"clig\" 1",
    smallCaps    |-> "\"smcp\" 1",
    oldstyleNums |-> "\"onum\" 1",
    tabularNums  |-> "\"tnum\" 1, \"lnum\" 1",
    fractions    |-> "\"frac\" 1" ]

\* What featureMap, an object literal, inherits from Object.prototype: the
\* methods below (and a few more), each with the text join() writes for it
ObjectPrototype ==
  [ constructor    |-> "function Object() { [native code] }",
    toString       |-> "function toString() { [native code] }",
    valueOf        |-> "function valueOf() { [native code] }",
    hasOwnProperty |-> "function hasOwnProperty() { [native code] }" ]

\* The values featureMap[feature] that are truthy, for the tags of a list in
\* the list's order: the own entries and the inherited ones; for any other
\* tag the lookup gives undefined
RECURSIVE MappedFeatures(_)
MappedFeatures(features) ==
  IF features = << >> THEN << >>
  ELSE (IF Head(features) \in DOMAIN featureMap
          THEN << featureMap[Head(features)] >>
          ELSE IF Head(features) \in DOMAIN ObjectPrototype
                 THEN << ObjectPrototype[Head(features)] >>
                 ELSE << >>)
       \o MappedFeatures(Tail(features))

\* Set.prototype.add / delete / has on a Set kept in insertion order
SetAdd(set, x) ==
  IF \E i \in 1..Len(set) : set[i] = x THEN set ELSE Append(set, x)
SetDelete(set, x) == SelectSeq(set, LAMBDA y : y # x)
SetHas(set, x) == \E i \in 1..Len(set) : set[i] = x

getControlValues(cv) ==
  [ fontFamily    |-> cv.fontSelect,
    fontSize      |-> cv.fontSize,
    fontWeight    |-> cv.fontWeight,
    letterSpacing |-> cv.letterSpacing,
    lineHeight    |-> cv.lineHeight,
    wordSpacing   |-> cv.wordSpacing ]

\* applyBasicStyling leaving text-align as it was
applyBasicStylingNoAlign(st, controls, alignment) ==
  [st EXCEPT !.fontFamily    = controls.fontFamily,
             !.fontSize      = controls.fontSize,
             !.fontWeight    = controls.fontWeight,
             !.letterSpacing = controls.letterSpacing,
             !.lineHeight    = controls.lineHeight,
             !.wordSpacing   = controls.wordSpacing]

applyBasicStyling(st, controls, alignment) ==
  [st EXCEPT !.fontFamily    = controls.fontFamily,
             !.fontSize      = controls.fontSize,
             !.fontWeight    = controls.fontWeight,
             !.letterSpacing = controls.letterSpacing,
             !.lineHeight    = controls.lineHeight,
             !.wordSpacing   = controls.wordSpacing,
             !.textAlign     = alignment]

\* LiveFeatureSettings without the fallback to 'normal'
LiveFeatureSettingsNoFallback(features) == Join(MappedFeatures(features))

\* features.join(', ') || 'normal'
LiveFeatureSettings(features) ==
  LET joined == Join(MappedFeatures(features))
  IN  IF joined = "" THEN "normal" ELSE joined

\* The assignment to style.fontFeatureSettings: a value that is no
\* font-feature-settings value (the text of a function) is dropped by the
\* style object, and the property keeps what it had
applyOpenTypeFeatures(st, features) ==
  IF \A i \in 1..Len(features) : features[i] \notin DOMAIN ObjectPrototype
    THEN [st EXCEPT !.fontFeatureSettings = LiveFeatureSettings(features)]
    ELSE st

\* applyLayoutOptimizations that leaves hyphens alone when hyphenation is off
applyLayoutOptimizationsNoManual(st, hyph, optimize) ==
  LET h == IF hyph
             THEN [st EXCEPT !.hyphens = "auto", !.hyphenateCharacter = "U+2010"]
             ELSE st
  IN  IF optimize
        THEN [h EXCEPT !.textRendering        = "optimizeLegibility",
                       !.fontOpticalSizing    = "auto",
                       !.fontVariantLigatures = "common-ligatures contextual"]
        ELSE [h EXCEPT !.textRendering        = "auto",
                       !.fontOpticalSizing    = "none",
                       !.fontVariantLigatures = "normal"]

\* applyLayoutOptimizations that does not reset font-optical-sizing when the
\* optimization is off
applyLayoutOptimizationsNoOpticalReset(st, hyph, optimize) ==
  LET h == IF hyph
             THEN [st EXCEPT !.hyphens = "auto", !.hyphenateCharacter = "U+2010"]
             ELSE [st EXCEPT !.hyphens = "manual"]
  IN  IF optimize
        THEN [h EXCEPT !.textRendering        = "optimizeLegibility",
                       !.fontOpticalSizing    = "auto",
                       !.fontVariantLigatures = "common-ligatures contextual"]
        ELSE [h EXCEPT !.textRendering        = "auto",
                       !.fontVariantLigatures = "normal"]

applyLayoutOptimizations(st, hyph, optimize) ==
  LET h == IF hyph
             THEN [st EXCEPT !.hyphens = "auto", !.hyphenateCharacter = "U+2010"]
             ELSE [st EXCEPT !.hyphens = "manual"]
  IN  IF optimize
        THEN [h EXCEPT !.textRendering        = "optimizeLegibility",
                       !.fontOpticalSizing    = "auto",
                       !.fontVariantLigatures = "common-ligatures contextual"]
        ELSE [h EXCEPT !.textRendering        = "auto",
                       !.fontOpticalSizing    = "none",
                       !.fontVariantLigatures = "normal"]

commonLigatures ==
  << <<102, 105>>, <<102, 108>>, <<102, 102>>, <<102, 102, 105>>, <<102, 102, 108>> >>

\* hasCommonLigatures looking for fi and fl only
hasCommonLigaturesFiFl(text) ==
  \E n \in 1..2 : Includes(text, commonLigatures[n])

hasCommonLigatures(text) ==
  \E n \in 1..Len(commonLigatures) : Includes(text, commonLigatures[n])

\* ClampScore without its upper limit
ClampScoreNoUpperLimit(score) == MathMax(0, score)

\* Math.max(0, Math.min(100, score))
ClampScore(score) == MathMax(0, MathMin(100, score))

\* lineHeight in hundredths, letterSpacing in tenths of a px
calculateLayoutScore(text, lineHeight, letterSpacing, features) ==
  LET parts   == SplitNewlineLength(text)
      divisor == IF parts = 0 THEN 1 ELSE parts
      s0 == 100
      s1 == IF Len(text) > 80 * divisor THEN s0 - 10 ELSE s0
      s2 == IF lineHeight >= 140 /\ lineHeight <= 160 THEN s1 + 5 ELSE s1
      s3 == IF SetHas(features, "ligatures") /\ hasCommonLigatures(text)
              THEN s2 + 5 ELSE s2
      s4 == IF MathAbs(letterSpacing) > 20 THEN s3 - 5 ELSE s3
  IN  ClampScore(s4)

\* text.trim() === '' ? 0 : text.trim().split(/\s+/).length
CountWords(text) ==
  LET trimmed == Trim(text)
  IN  IF trimmed = << >> THEN 0 ELSE SplitWhiteSpaceLength(trimmed)

\* Math.floor(containerWidth / (fontSize * 0.6)) || 1.  Division by zero gives
\* Infinity, which is kept by || 1, or NaN (0 / 0), which is replaced; a zero
\* quotient is replaced; any other quotient, negative ones too, is kept.
CharsPerLine(containerWidth, fontSize) ==
  IF fontSize = 0
    THEN IF containerWidth = 0
           THEN [infinite |-> FALSE, n |-> 1]
           ELSE [infinite |-> TRUE, n |-> 0]
    ELSE LET q == MathFloorDiv(5 * containerWidth, 3 * fontSize)
         IN  [infinite |-> FALSE, n |-> IF q = 0 THEN 1 ELSE q]

\* Math.ceil(length / charsPerLine) || 1
CountLines(length, charsPerLine) ==
  IF charsPerLine.infinite THEN 1
  ELSE LET c == MathCeilDiv(length, charsPerLine.n)
       IN  IF c = 0 THEN 1 ELSE c

\* text.length: the number of UTF-16 code units
StringLength(text) == Len(text)

calculateTextMetrics(text, containerWidth, fontSize) ==
  [ characters |-> StringLength(text),
    words      |-> CountWords(text),
    lines      |-> CountLines(StringLength(text), CharsPerLine(containerWidth, fontSize)) ]

\* The declarations of the .custom-typography rule, by property
BaseRule(controls, features, alignment, hyph, optimize) ==
  LET fontFeatures == Join(MappedFeatures(features))
  IN  [ p \in {"font-family", "font-size", "font-weight", "letter-spacing",
               "line-height", "word-spacing", "text-align"}
               \cup (IF fontFeatures # "" THEN {"font-feature-settings"} ELSE {})
               \cup (IF hyph THEN {"hyphens"} ELSE {})
               \cup (IF optimize
                       THEN {"text-rendering", "font-optical-sizing",
                             "font-variant-ligatures"}
                       ELSE {})
        |-> CASE p = "font-family"            -> controls.fontFamily
              [] p = "font-size"              -> controls.fontSize
              [] p = "font-weight"            -> controls.fontWeight
              [] p = "letter-spacing"         -> controls.letterSpacing
              [] p = "line-height"            -> controls.lineHeight
              [] p = "word-spacing"           -> controls.wordSpacing
              [] p = "text-align"             -> alignment
              [] p = "font-feature-settings"  -> fontFeatures
              [] p = "hyphens"                -> "auto"
              [] p = "text-rendering"         -> "optimizeLegibility"
              [] p = "font-optical-sizing"    -> "auto"
              [] p = "font-variant-ligatures" -> "common-ligatures contextual" ]

\* The @media (max-width: 768px) block: font-size in tenths of a px,
\* line-height in ten-thousandths
TabletRule(controls) ==
  [ fontSize   |-> MathMax(140, controls.fontSize * 9),
    lineHeight |-> MathMax(12000, controls.lineHeight * 95) ]

\* MobileRule without the floor of the letter-spacing at 0
MobileRuleNoSpacingFloor(controls) ==
  [ fontSize      |-> MathMax(120, controls.fontSize * 8),
    letterSpacing |-> controls.letterSpacing * 8 ]

\* MobileRule scaling the font size of the 768px block
MobileRuleFromTablet(controls) ==
  [ fontSize      |-> MathMax(120, (MathMax(140, controls.fontSize * 9) * 8) \div 10),
    letterSpacing |-> MathMax(0, controls.letterSpacing * 8) ]

\* The @media (max-width: 480px) block: font-size in tenths of a px,
\* letter-spacing in hundredths
MobileRule(controls) ==
  [ fontSize      |-> MathMax(120, controls.fontSize * 8),
    letterSpacing |-> MathMax(0, controls.letterSpacing * 8) ]

generateCSS(controls, features, alignment, hyph, optimize) ==
  [ base   |-> BaseRule(controls, features, alignment, hyph, optimize),
    tablet |-> TabletRule(controls),
    mobile |-> MobileRule(controls) ]

(***************************************************************************)
(* Timeouts.  timers is the browser's table of the timeouts that are set   *)
(* and have not fired.  An entry holds the function that set it (id: the   *)
(* control whose listener it is), the time that remains until it is due,   *)
(* in units of 50 ms, and the arguments its callback is bound to.  A       *)
(* timeout may fire late, never early.                                     *)
(***************************************************************************)
\* The delay of each listener's timeout, in units of 50 ms: 100 ms for
\* addEventListenerWithDebounce, 50 ms for addRangeListener and for the
\* arrow keys on a range input, 150 ms for the text area, 250 ms for the
\* window's resize
Wait ==
  [ fontSelect |-> 2, fontWeight |-> 2, hyphenation |-> 2, optimizeLayout |-> 2,
    fontSize |-> 1, letterSpacing |-> 1, lineHeight |-> 1, wordSpacing |-> 1,
    keydown |-> 1, textInput |-> 3, resize |-> 5 ]

LongestWait ==
  CHOOSE w \in {Wait[id] : id \in DOMAIN Wait} : \A id \in DOMAIN Wait : Wait[id] <= w

\* clearTimeout(timeout), timeout being the variable in which the listener
\* id keeps the handle of the timeout it set last
clearTimeout(table, id) == {t \in table : t.id # id}

setTimeout(table, id, wait, args) ==
  table \cup {[id |-> id, remaining |-> wait, args |-> args]}

\* debounce whose executedFunction does not clear the timeout it set before
debounceNoClear(table, id, args) == setTimeout(table, id, Wait[id], args)

\* executedFunction(...args) of debounce(func, wait), for the listener id
debounce(table, id, args) == setTimeout(clearTimeout(table, id), id, Wait[id], args)

\* The timeouts of the listener id that are due
Due(id) == {t \in timers : t.id = id /\ t.remaining = 0}

\* The event dispatched on the control target.  Two events on one target are
\* told apart by the value (or checked state) the control had when each was
\* dispatched; the callbacks read e.target only.
Event(target, value) == [target |-> target, value |-> value]

(***************************************************************************)
(* updateRendering and the handlers                                        *)
(***************************************************************************)
\* The metric displays, in the order updateMetrics goes through them
MetricDisplays == << "charCount", "wordCount", "lineCount", "layoutScore" >>

\* The duration of an animation, in units of 50 ms
AnimationDuration == 6

\* updateMetricDisplay(id, value) on the displays disp (a display that is
\* not on the page is skipped) and the registered callbacks anims:
\* parseInt(element.textContent) || 0 is the number the display shows, and
\* animateValue registers its first callback
updateMetricDisplay(disp, anims, id, value) ==
  IF id \in DOMAIN disp /\ disp[id] # value
    THEN Append(anims, [id |-> id, start |-> disp[id], end |-> value, elapsed |-> 0])
    ELSE anims

updateMetrics(disp, anims, m, score) ==
  LET a1 == updateMetricDisplay(disp, anims, MetricDisplays[1], m.characters)
      a2 == updateMetricDisplay(disp, a1, MetricDisplays[2], m.words)
      a3 == updateMetricDisplay(disp, a2, MetricDisplays[3], m.lines)
  IN  updateMetricDisplay(disp, a3, MetricDisplays[4], score)

\* updateRendering, run on the values ti (textInput.value), cv (the controls),
\* af, hy, lo, al (the engine's fields) and ow (the preview's width) that its
\* caller leaves.  The renderTime display is left out: what it is given is
\* the wall-clock time the rendering took.
updateRendering(ti, cv, af, hy, lo, al, ow) ==
  LET text     == IF ti = << >> THEN Placeholder ELSE ti
      controls == getControlValues(cv)
  IN  /\ style' = applyLayoutOptimizations(
                    applyOpenTypeFeatures(
                      applyBasicStyling(style, controls, al), af), hy, lo)
      /\ activeCount' = Len(af)
      /\ layoutScore' = calculateLayoutScore(text, cv.lineHeight, cv.letterSpacing, af)
      /\ textContent' = text
      /\ metrics' = calculateTextMetrics(text, ow, cv.fontSize)
      /\ display' = display
      /\ animations' = updateMetrics(display, animations, metrics', layoutScore')

\* The style of an element on which no property has been set yet, with the
\* numeric properties at 0
UnsetStyle ==
  [ fontFamily |-> "", fontSize |-> 0, fontWeight |-> 0, letterSpacing |-> 0,
    lineHeight |-> 0, wordSpacing |-> 0, textAlign |-> "", fontFeatureSettings |-> "",
    hyphens |-> "", hyphenateCharacter |-> "", textRendering |-> "",
    fontOpticalSizing |-> "", fontVariantLigatures |-> "" ]

\* The range inputs addRangeListener is called for
RangeInputs == {"fontSize", "letterSpacing", "lineHeight", "wordSpacing"}

\* The values getControlValues falls back to
DefaultControls ==
  [ fontSelect |-> "serif", fontSize |-> 18, fontWeight |-> 400,
    letterSpacing |-> 0, lineHeight |-> 140, wordSpacing |-> 0 ]

\* this.breakpoints
breakpoints == [mobile |-> 480, tablet |-> 768, desktop |-> 1024]

\* The controls wrapper and its toggle button as the page has them before
\* the script runs: the menu closed, as the constructor's isMobileControlsOpen
ControlsMarkup ==
  [ controlsWrapper |-> [show |-> FALSE, ariaHidden |-> "true"],
    toggleBtn |-> [active |-> FALSE, ariaExpanded |-> "false"] ]

\* String(b), what setAttribute stores of a boolean
BooleanString(b) == IF b THEN "true" ELSE "false"

\* updateMobileControlsState: the wrapper it leaves in a window of that width
updateMobileControlsState(wrapper, width) ==
  LET isMobile == width <= breakpoints.tablet
  IN  IF ~isMobile THEN [show |-> TRUE, ariaHidden |-> "false"] ELSE wrapper

\* The state the constructor leaves on a page whose controls hold cv, whose
\* preview is ow px wide and whose window is width px wide: the fields it sets, then its updateRendering.
\* The page's markup is not in script.js: the text area is taken to start
\* empty, and the checkboxes and alignment buttons to show the constructor's
\* defaults (kerning checked, left active).
\* displays are the metric displays the page has, each taken to show 0 (or
\* no number) at first; the range value displays are taken to show the
\* values of their inputs, and the fullscreen button what toggleFullscreen
\* gives it on leaving fullscreen.
ConstructedAt(cv, ow, displays, width) ==
  LET af == << "kerning" >>
      text == Placeholder
  IN  /\ textInput = << >>
      /\ controlValue = cv
      /\ checked = [c \in FeatureTags \cup {"hyphenation", "optimizeLayout"}
                      |-> c = "kerning"]
      /\ offsetWidth = ow
      /\ activeFeatures = af
      /\ hyphenation = FALSE
      /\ layoutOptimization = FALSE
      /\ currentAlignment = "left"
      /\ alignButtons = {"left"}
      /\ style = applyLayoutOptimizations(
                   applyOpenTypeFeatures(
                     applyBasicStyling(UnsetStyle, getControlValues(cv), "left"), af),
                   FALSE, FALSE)
      /\ activeCount = Len(af)
      /\ layoutScore = calculateLayoutScore(text, cv.lineHeight, cv.letterSpacing, af)
      /\ textContent = text
      /\ metrics = calculateTextMetrics(text, ow, cv.fontSize)
      /\ timers = {}
      /\ sinceEvent = Wait
      /\ download = << >>
      /\ isFullscreen = FALSE
      /\ fullscreenMode = FALSE
      /\ fullscreenBtn = [textContent |-> "U+26F6", ariaLabel |-> "Enter fullscreen"]
      /\ valueDisplay = [id \in RangeInputs |-> cv[id]]
      /\ display = [id \in displays |-> 0]
      /\ animations = updateMetrics(display, << >>, metrics, layoutScore)
      /\ isMobileControlsOpen = FALSE
      /\ innerWidth = width
      /\ controlsWrapper = updateMobileControlsState(ControlsMarkup.controlsWrapper, width)
      /\ toggleBtn = ControlsMarkup.toggleBtn

\* The same in a window as wide as the desktop breakpoint
ConstructedOn(cv, ow, displays) == ConstructedAt(cv, ow, displays, breakpoints.desktop)

\* The same on a page without metric displays.  No handler but
\* updateMetricDisplay and the animation it starts reads or writes a display.
Constructed(cv, ow) == ConstructedOn(cv, ow, {})

Init == Constructed(DefaultControls, 600)

\* FeatureChange without its updateRendering
FeatureChangeNoRendering(feature) ==
  /\ checked' = [checked EXCEPT ![feature] = ~checked[feature]]
  /\ activeFeatures' = IF checked'[feature]
                         THEN SetAdd(activeFeatures, feature)
                         ELSE SetDelete(activeFeatures, feature)
  /\ download' = << >>
  /\ UNCHANGED << sinceEvent, isFullscreen, fullscreenMode, fullscreenBtn, mobileControls, valueDisplay, display, animations,
                  alignButtons, textInput, controlValue, offsetWidth, hyphenation,
                  layoutOptimization, currentAlignment, timers, layoutScore, style,
                  textContent, metrics, activeCount >>

\* change on a feature checkbox
FeatureChange(feature) ==
  /\ checked' = [checked EXCEPT ![feature] = ~checked[feature]]
  /\ activeFeatures' = IF checked'[feature]
                         THEN SetAdd(activeFeatures, feature)
                         ELSE SetDelete(activeFeatures, feature)
  /\ updateRendering(textInput, controlValue, activeFeatures', hyphenation,
                     layoutOptimization, currentAlignment, offsetWidth)
  /\ download' = << >>
  /\ UNCHANGED << sinceEvent, isFullscreen, fullscreenMode, fullscreenBtn, mobileControls, valueDisplay,
                  alignButtons, textInput, controlValue, offsetWidth, hyphenation,
                  layoutOptimization, currentAlignment, timers >>

\* click on a sample button
loadSampleText(sampleType) ==
  /\ sampleType \in DOMAIN sampleTexts
  /\ textInput' = sampleTexts[sampleType]
  /\ updateRendering(textInput', controlValue, activeFeatures, hyphenation,
                     layoutOptimization, currentAlignment, offsetWidth)
  /\ download' = << >>
  /\ UNCHANGED << sinceEvent, isFullscreen, fullscreenMode, fullscreenBtn, mobileControls, valueDisplay,
                  alignButtons, controlValue, checked, offsetWidth, activeFeatures, hyphenation,
                  layoutOptimization, currentAlignment, timers >>

\* input on the text area: the pending timeout is cleared and a new one set
TextInput(text) ==
  /\ text # textInput
  /\ textInput' = text
  /\ timers' = setTimeout(clearTimeout(timers, "textInput"), "textInput",
                          Wait.textInput, << >>)
  /\ sinceEvent' = [sinceEvent EXCEPT !.textInput = 0]
  /\ download' = << >>
  /\ UNCHANGED << isFullscreen, fullscreenMode, fullscreenBtn, mobileControls, valueDisplay, display, animations,
                  alignButtons, controlValue, checked, offsetWidth, activeFeatures, hyphenation,
                  layoutOptimization, currentAlignment, layoutScore, style,
                  textContent, metrics, activeCount >>

\* the text area's timeout fires
TextInputTimeout ==
  /\ \E t \in Due("textInput") : timers' = timers \ {t}
  /\ updateRendering(textInput, controlValue, activeFeatures, hyphenation,
                     layoutOptimization, currentAlignment, offsetWidth)
  /\ download' = << >>
  /\ UNCHANGED << sinceEvent, isFullscreen, fullscreenMode, fullscreenBtn, mobileControls, valueDisplay,
                  alignButtons, textInput, controlValue, checked, offsetWidth, activeFeatures,
                  hyphenation, layoutOptimization, currentAlignment >>

\* change on the hyphenation or the optimizeLayout checkbox: debounced
LayoutOptionChange(id) ==
  /\ id \in {"hyphenation", "optimizeLayout"}
  /\ checked' = [checked EXCEPT ![id] = ~checked[id]]
  /\ timers' = debounce(timers, id, << Event(id, checked'[id]) >>)
  /\ sinceEvent' = [sinceEvent EXCEPT ![id] = 0]
  /\ download' = << >>
  /\ UNCHANGED << isFullscreen, fullscreenMode, fullscreenBtn, mobileControls, valueDisplay, display, animations,
                  alignButtons, textInput, controlValue, offsetWidth, activeFeatures, hyphenation,
                  layoutOptimization, currentAlignment, layoutScore, style,
                  textContent, metrics, activeCount >>

\* later() of the hyphenation checkbox's debounce, and the callback with
\* the arguments it is bound to
HyphenationTimeout ==
  /\ \E t \in Due("hyphenation") :
        /\ timers' = clearTimeout(timers \ {t}, "hyphenation")
        /\ hyphenation' = checked[t.args[1].target]
  /\ updateRendering(textInput, controlValue, activeFeatures, hyphenation',
                     layoutOptimization, currentAlignment, offsetWidth)
  /\ download' = << >>
  /\ UNCHANGED << sinceEvent, isFullscreen, fullscreenMode, fullscreenBtn, mobileControls, valueDisplay,
                  alignButtons, textInput, controlValue, checked, offsetWidth, activeFeatures,
                  layoutOptimization, currentAlignment >>

\* later() of the optimizeLayout checkbox's debounce, and the callback with
\* the arguments it is bound to
OptimizeLayoutTimeout ==
  /\ \E t \in Due("optimizeLayout") :
        /\ timers' = clearTimeout(timers \ {t}, "optimizeLayout")
        /\ layoutOptimization' = checked[t.args[1].target]
  /\ updateRendering(textInput, controlValue, activeFeatures, hyphenation,
                     layoutOptimization', currentAlignment, offsetWidth)
  /\ download' = << >>
  /\ UNCHANGED << sinceEvent, isFullscreen, fullscreenMode, fullscreenBtn, mobileControls, valueDisplay,
                  alignButtons, textInput, controlValue, checked, offsetWidth, activeFeatures,
                  hyphenation, currentAlignment >>

\* input on a range input: debounced
RangeInput(id, value) ==
  /\ id \in RangeInputs
  /\ value # controlValue[id]
  /\ controlValue' = [controlValue EXCEPT ![id] = value]
  /\ timers' = debounce(timers, id, << Event(id, value) >>)
  /\ sinceEvent' = [sinceEvent EXCEPT ![id] = 0]
  /\ download' = << >>
  /\ UNCHANGED << isFullscreen, fullscreenMode, fullscreenBtn, mobileControls, valueDisplay, display,
                  animations, alignButtons, textInput, checked, offsetWidth,
                  activeFeatures, hyphenation, layoutOptimization, currentAlignment,
                  layoutScore, style, textContent, metrics, activeCount >>

\* RangeTimeout whose updateValue does not call updateRendering
RangeTimeoutNoRendering(id) ==
  /\ id \in RangeInputs
  /\ \E t \in Due(id) : timers' = clearTimeout(timers \ {t}, id)
  /\ valueDisplay' = [valueDisplay EXCEPT ![id] = controlValue[id]]
  /\ download' = << >>
  /\ UNCHANGED << sinceEvent, isFullscreen, fullscreenMode, fullscreenBtn, mobileControls, alignButtons,
                  textInput, controlValue, checked, offsetWidth, activeFeatures,
                  hyphenation, layoutOptimization, currentAlignment, layoutScore, style,
                  textContent, metrics, activeCount, display, animations >>

\* later() of a range input's debounce, and updateValue
RangeTimeout(id) ==
  /\ id \in RangeInputs
  /\ \E t \in Due(id) : timers' = clearTimeout(timers \ {t}, id)
  /\ valueDisplay' = [valueDisplay EXCEPT ![id] = controlValue[id]]
  /\ updateRendering(textInput, controlValue, activeFeatures, hyphenation,
                     layoutOptimization, currentAlignment, offsetWidth)
  /\ download' = << >>
  /\ UNCHANGED << sinceEvent, isFullscreen, fullscreenMode, fullscreenBtn, mobileControls, alignButtons,
                  textInput, controlValue, checked, offsetWidth, activeFeatures,
                  hyphenation, layoutOptimization, currentAlignment >>

\* keydown of an arrow key on a range input (setupKeyboardNavigation): a
\* timeout of its own, which nothing clears.  The change of the value and
\* the input event that the key brings about are RangeInput.
RangeArrowKey ==
  /\ timers' = setTimeout(timers, "keydown", Wait.keydown, << >>)
  /\ sinceEvent' = [sinceEvent EXCEPT !.keydown = 0]
  /\ download' = << >>
  /\ UNCHANGED << isFullscreen, fullscreenMode, fullscreenBtn, mobileControls, valueDisplay, display,
                  animations, alignButtons, textInput, controlValue, checked, offsetWidth,
                  activeFeatures, hyphenation, layoutOptimization, currentAlignment,
                  layoutScore, style, textContent, metrics, activeCount >>

\* a timeout of the arrow keys fires
RangeArrowKeyTimeout ==
  /\ \E t \in Due("keydown") : timers' = timers \ {t}
  /\ updateRendering(textInput, controlValue, activeFeatures, hyphenation,
                     layoutOptimization, currentAlignment, offsetWidth)
  /\ download' = << >>
  /\ UNCHANGED << sinceEvent, isFullscreen, fullscreenMode, fullscreenBtn, mobileControls, valueDisplay,
                  alignButtons, textInput, controlValue, checked, offsetWidth,
                  activeFeatures, hyphenation, layoutOptimization, currentAlignment >>

\* change on the fontSelect or the fontWeight select: debounced
SelectChange(id, value) ==
  /\ id \in {"fontSelect", "fontWeight"}
  /\ value # controlValue[id]
  /\ controlValue' = [controlValue EXCEPT ![id] = value]
  /\ timers' = debounce(timers, id, << Event(id, value) >>)
  /\ sinceEvent' = [sinceEvent EXCEPT ![id] = 0]
  /\ download' = << >>
  /\ UNCHANGED << isFullscreen, fullscreenMode, fullscreenBtn, mobileControls, valueDisplay, display,
                  animations, alignButtons, textInput, checked, offsetWidth,
                  activeFeatures, hyphenation, layoutOptimization, currentAlignment,
                  layoutScore, style, textContent, metrics, activeCount >>

\* later() of a select's debounce, and its callback
SelectTimeout(id) ==
  /\ id \in {"fontSelect", "fontWeight"}
  /\ \E t \in Due(id) : timers' = clearTimeout(timers \ {t}, id)
  /\ updateRendering(textInput, controlValue, activeFeatures, hyphenation,
                     layoutOptimization, currentAlignment, offsetWidth)
  /\ download' = << >>
  /\ UNCHANGED << sinceEvent, isFullscreen, fullscreenMode, fullscreenBtn, mobileControls, valueDisplay,
                  alignButtons, textInput, controlValue, checked, offsetWidth,
                  activeFeatures, hyphenation, layoutOptimization, currentAlignment >>

\* setActiveAlignment that does not take 'active' off the other buttons
setActiveAlignmentNoRemove(button, alignment) ==
  /\ alignButtons' = alignButtons \cup {button}
  /\ currentAlignment' = alignment
  /\ updateRendering(textInput, controlValue, activeFeatures, hyphenation,
                     layoutOptimization, currentAlignment', offsetWidth)
  /\ download' = << >>
  /\ UNCHANGED << sinceEvent, isFullscreen, fullscreenMode, fullscreenBtn, mobileControls, valueDisplay,
                  textInput, controlValue, checked, offsetWidth, activeFeatures,
                  hyphenation, layoutOptimization, timers >>

\* click on an alignment button: e.target is the button, its data-align the
\* alignment
setActiveAlignment(button, alignment) ==
  /\ alignButtons' = {button}
  /\ currentAlignment' = alignment
  /\ updateRendering(textInput, controlValue, activeFeatures, hyphenation,
                     layoutOptimization, currentAlignment', offsetWidth)
  /\ download' = << >>
  /\ UNCHANGED << sinceEvent, isFullscreen, fullscreenMode, fullscreenBtn, mobileControls, valueDisplay,
                  textInput, controlValue, checked, offsetWidth, activeFeatures,
                  hyphenation, layoutOptimization, timers >>

\* click on the CSS export button
exportCSS ==
  /\ download' = << [ filename |-> "font-styles.css",
                      content  |-> generateCSS(getControlValues(controlValue),
                                               activeFeatures, currentAlignment,
                                               hyphenation, layoutOptimization),
                      mimeType |-> "text/css" ] >>
  /\ UNCHANGED << sinceEvent, isFullscreen, fullscreenMode, fullscreenBtn, mobileControls, valueDisplay, display, animations,
                  alignButtons, textInput, controlValue, checked, offsetWidth, activeFeatures,
                  hyphenation, layoutOptimization, currentAlignment, layoutScore,
                  style, textContent, metrics, activeCount, timers >>

\* toggleFullscreen that leaves the button's aria-label on leaving fullscreen
toggleFullscreenKeepLabel ==
  IF ~isFullscreen
    THEN /\ fullscreenMode' = TRUE
         /\ fullscreenBtn' = [textContent |-> "U+26DE", ariaLabel |-> "Exit fullscreen"]
         /\ isFullscreen' = TRUE
    ELSE /\ fullscreenMode' = FALSE
         /\ fullscreenBtn' = [fullscreenBtn EXCEPT !.textContent = "U+26F6"]
         /\ isFullscreen' = FALSE

toggleFullscreen ==
  IF ~isFullscreen
    THEN /\ fullscreenMode' = TRUE
         /\ fullscreenBtn' = [textContent |-> "U+26DE", ariaLabel |-> "Exit fullscreen"]
         /\ isFullscreen' = TRUE
    ELSE /\ fullscreenMode' = FALSE
         /\ fullscreenBtn' = [textContent |-> "U+26F6", ariaLabel |-> "Enter fullscreen"]
         /\ isFullscreen' = FALSE

\* click on the fullscreenToggle button
FullscreenClick ==
  /\ toggleFullscreen
  /\ download' = << >>
  /\ UNCHANGED << mobileControls, sinceEvent, textInput, controlValue, checked, offsetWidth, activeFeatures,
                  hyphenation, layoutOptimization, currentAlignment, alignButtons,
                  layoutScore, style, textContent, metrics, activeCount, timers,
                  valueDisplay, display, animations >>

\* keydown of Escape or of F11 anywhere in the document: the listener of
\* initializeEventListeners, then the one of initializeAccessibility
KeyDown(key) ==
  /\ key \in {"Escape", "F11"}
  /\ IF (key = "Escape" /\ isFullscreen) \/ key = "F11"
       THEN toggleFullscreen
       ELSE UNCHANGED << isFullscreen, fullscreenMode, fullscreenBtn >>
  /\ download' = << >>
  /\ UNCHANGED << mobileControls, sinceEvent, textInput, controlValue, checked, offsetWidth, activeFeatures,
                  hyphenation, layoutOptimization, currentAlignment, alignButtons,
                  layoutScore, style, textContent, metrics, activeCount, timers,
                  valueDisplay, display, animations >>

\* toggleMobileControls
toggleMobileControls ==
  /\ isMobileControlsOpen' = ~isMobileControlsOpen
  /\ controlsWrapper' = [show |-> isMobileControlsOpen',
                         ariaHidden |-> BooleanString(~isMobileControlsOpen')]
  /\ toggleBtn' = [active |-> isMobileControlsOpen',
                   ariaExpanded |-> BooleanString(isMobileControlsOpen')]

\* click on the toggleControls button
ToggleControlsClick ==
  /\ toggleMobileControls
  /\ download' = << >>
  /\ UNCHANGED << innerWidth, sinceEvent, isFullscreen, fullscreenMode, fullscreenBtn,
                  textInput, controlValue, checked, offsetWidth, activeFeatures,
                  hyphenation, layoutOptimization, currentAlignment, alignButtons,
                  layoutScore, style, textContent, metrics, activeCount, timers,
                  valueDisplay, display, animations >>

\* resize of the window to width px, the preview becoming ow px wide: debounced
Resize(width, ow) ==
  /\ width # innerWidth
  /\ innerWidth' = width
  /\ offsetWidth' = ow
  /\ timers' = debounce(timers, "resize", << >>)
  /\ sinceEvent' = [sinceEvent EXCEPT !.resize = 0]
  /\ download' = << >>
  /\ UNCHANGED << isMobileControlsOpen, controlsWrapper, toggleBtn, isFullscreen,
                  fullscreenMode, fullscreenBtn, valueDisplay, display, animations,
                  alignButtons, textInput, controlValue, checked, activeFeatures,
                  hyphenation, layoutOptimization, currentAlignment, layoutScore, style,
                  textContent, metrics, activeCount >>

\* later() of the resize listener's debounce: handleResize
ResizeTimeout ==
  /\ \E t \in Due("resize") : timers' = clearTimeout(timers \ {t}, "resize")
  /\ controlsWrapper' = updateMobileControlsState(controlsWrapper, innerWidth)
  /\ updateRendering(textInput, controlValue, activeFeatures, hyphenation,
                     layoutOptimization, currentAlignment, offsetWidth)
  /\ download' = << >>
  /\ UNCHANGED << isMobileControlsOpen, toggleBtn, innerWidth, sinceEvent, isFullscreen,
                  fullscreenMode, fullscreenBtn, valueDisplay, alignButtons, textInput,
                  controlValue, checked, offsetWidth, activeFeatures, hyphenation,
                  layoutOptimization, currentAlignment >>

\* easeOutQuart, and Math.round(start + difference * easeOutQuart(progress)),
\* of the callback a: its progress is elapsed / duration, at most 1
AnimationValue(a) ==
  LET left == AnimationDuration - a.elapsed
      den  == AnimationDuration * AnimationDuration * AnimationDuration * AnimationDuration
      num  == a.start * den + (a.end - a.start) * (den - left * left * left * left)
  IN  MathFloorDiv(2 * num + den, 2 * den)

\* An animation frame: the registered callbacks run in their order; each
\* writes its value to its display and, its progress below 1, registers
\* itself again
AnimationFrame ==
  /\ animations # << >>
  /\ display' = [id \in DOMAIN display |->
                   LET mine == SelectSeq(animations, LAMBDA a : a.id = id)
                   IN  IF mine = << >> THEN display[id]
                       ELSE AnimationValue(mine[Len(mine)])]
  /\ animations' = SelectSeq(animations, LAMBDA a : a.elapsed < AnimationDuration)
  /\ download' = << >>
  /\ UNCHANGED << sinceEvent, isFullscreen, fullscreenMode, fullscreenBtn, mobileControls, valueDisplay,
                  alignButtons, textInput, controlValue, checked, offsetWidth,
                  activeFeatures, hyphenation, layoutOptimization, currentAlignment,
                  layoutScore, style, textContent, metrics, activeCount, timers >>

\* d units of time pass without an event
Elapse(d) ==
  /\ \/ \E t \in timers : t.remaining > 0
     \/ \E id \in DOMAIN Wait : sinceEvent[id] < Wait[id]
     \/ \E k \in 1..Len(animations) : animations[k].elapsed < AnimationDuration
  /\ timers' = {[t EXCEPT !.remaining = MathMax(0, @ - d)] : t \in timers}
  /\ sinceEvent' = [id \in DOMAIN Wait |-> MathMin(Wait[id], sinceEvent[id] + d)]
  /\ animations' = [k \in 1..Len(animations) |->
                      [animations[k] EXCEPT !.elapsed = MathMin(AnimationDuration, @ + d)]]
  /\ display' = display
  /\ download' = << >>
  /\ UNCHANGED << isFullscreen, fullscreenMode, fullscreenBtn, mobileControls, valueDisplay,
                  alignButtons, textInput, controlValue, checked, offsetWidth, activeFeatures,
                  hyphenation, layoutOptimization, currentAlignment, layoutScore,
                  style, textContent, metrics, activeCount >>

\* 50 ms pass
Tick == Elapse(1)

\* The user pauses until every timeout that is set is due
Pause == Elapse(LongestWait)

(***************************************************************************)
(* Specifications                                                          *)
(***************************************************************************)
SampleTypes == DOMAIN sampleTexts

FeatureChangeStep == \E feature \in FeatureTags : FeatureChange(feature)

\* The feature checkboxes and the export
Next ==
  \/ FeatureChangeStep
  \/ exportCSS

Spec == Init /\ [][Next]_vars

\* Texts typed into the text area: the empty text, white space only, words
\* separated by one and by several white-space characters, white space at
\* both ends, ligature pairs, a character outside the Basic Multilingual
\* Plane (a surrogate pair) alone and among others, and lines of 80 and of
\* more than 80 characters, alone and two to a text
TypedTexts ==
  { << >>,
    << 32, 32, 32 >>,
    << 104, 101, 108, 108, 111, 32, 119, 111, 114, 108, 100 >>,
    << 104, 101, 108, 108, 111, 32, 32, 32, 119, 111, 114, 108, 100 >>,
    << 9, 97, 32, 10, 98, 32 >>,
    << 111, 102, 102 >>,
    << 102, 105 >>,
    << 55357, 56832 >>,
    << 97, 55357, 56832, 98 >>,
    Rep(97, 80),
    Rep(97, 81),
    Rep(97, 80) \o << 10 >> \o Rep(97, 79),
    Rep(97, 81) \o << 10 >> \o Rep(97, 81) }

TextInputStep == \E text \in TypedTexts : TextInput(text)
LoadSampleStep == \E sampleType \in SampleTypes : loadSampleText(sampleType)
LigaturesChange == FeatureChange("ligatures")

\* The values the lineHeight and letterSpacing controls are probed with: the
\* ends and the inside of the ranges the score distinguishes, and values far
\* outside the sliders' documented ranges
LineHeightProbes == {100, 140, 160, 170}
LetterSpacingProbes == {-30, -20, 0, 21, 10000}

\* The text and the ligatures checkbox change, on pages whose lineHeight
\* and letterSpacing controls hold any of the probe values
InitScore ==
  \E lh \in LineHeightProbes, ls \in LetterSpacingProbes :
     Constructed([DefaultControls EXCEPT !.lineHeight = lh, !.letterSpacing = ls], 600)

NextScore ==
  \/ TextInputStep
  \/ Pause
  \/ TextInputTimeout
  \/ LoadSampleStep
  \/ LigaturesChange

SpecScore == InitScore /\ [][NextScore]_vars

\* The values the fontSize control and the preview's width are probed with,
\* zero and negative font sizes among them
FontSizeProbes == {-10, 0, 12, 18, 72}
WidthProbes == {0, 320, 600}

\* The text changes, on pages of any probed font size and width
InitMetrics ==
  \E fs \in FontSizeProbes, ow \in WidthProbes :
     Constructed([DefaultControls EXCEPT !.fontSize = fs], ow)

NextMetrics ==
  \/ TextInputStep
  \/ Pause
  \/ TextInputTimeout

SpecMetrics == InitMetrics /\ [][NextMetrics]_vars

\* The longest run of white space in the texts of RunTexts
MaxRun == 2

\* A run of k white-space characters: space, tab, line feed, no-break space
\* and again
WhiteSpaceRun(k) == [i \in 1..k |-> << 32, 9, 10, 160 >>[((i - 1) % 4) + 1]]

\* Two words between, and around them, runs of white space of every length
\* up to MaxRun, and the texts of white space only (the empty one too)
RunTexts ==
  { WhiteSpaceRun(l) \o << 104, 105 >> \o WhiteSpaceRun(m) \o << 121, 111, 117 >>
      \o WhiteSpaceRun(t) : l \in 0..MaxRun, m \in 1..MaxRun, t \in 0..MaxRun }
  \cup { WhiteSpaceRun(k) : k \in 0..MaxRun }

RunTextInputStep == \E text \in RunTexts : TextInput(text)

\* The text changes among the texts of RunTexts, on the default page
NextWords ==
  \/ RunTextInputStep
  \/ Pause
  \/ TextInputTimeout

SpecWords == Init /\ [][NextWords]_vars

\* The values of the controls the export is probed with
ExportFontSizes == {12, 16, 72}
ExportLineHeights == {100, 140}
ExportLetterSpacings == {-30, 0, 8}

KerningOrLigaturesChange == \E feature \in {"kerning", "ligatures"} : FeatureChange(feature)
LayoutOptionStep == \E id \in {"hyphenation", "optimizeLayout"} : LayoutOptionChange(id)
AlignmentStep == \E button \in {"left", "justify"} : setActiveAlignment(button, button)

\* The features, the layout options and the alignment change and the CSS is
\* exported, on pages whose numeric controls hold any of the probe values
InitExport ==
  \E fs \in ExportFontSizes, lh \in ExportLineHeights, ls \in ExportLetterSpacings :
     Constructed([DefaultControls EXCEPT !.fontSize = fs, !.lineHeight = lh,
                                         !.letterSpacing = ls], 600)

NextExport ==
  \/ KerningOrLigaturesChange
  \/ LayoutOptionStep
  \/ Pause
  \/ HyphenationTimeout
  \/ OptimizeLayoutTimeout
  \/ AlignmentStep
  \/ exportCSS

SpecExport == InitExport /\ [][NextExport]_vars
\* The alignment buttons of the page, by their data-align
AlignButtons == {"left", "center", "right", "justify"}

AlignClick == \E button \in AlignButtons : setActiveAlignment(button, button)
EscapeKey == KeyDown("Escape")
F11Key == KeyDown("F11")
ThreeFeaturesChange ==
  \E feature \in {"kerning", "ligatures", "smallCaps"} : FeatureChange(feature)

\* The alignment buttons, the fullscreen button and keys, and three of the
\* feature checkboxes
NextPage ==
  \/ AlignClick
  \/ FullscreenClick
  \/ EscapeKey
  \/ F11Key
  \/ ThreeFeaturesChange

SpecPage == Init /\ [][NextPage]_vars

\* A short text for the text area, with a ligature pair
ShortTexts == { << 104, 105, 32, 102, 105 >> }

ShortTextInputStep == \E text \in ShortTexts \cup {<< >>} : TextInput(text)
HyphenationChange == LayoutOptionChange("hyphenation")
FontSizeInputStep == \E value \in {16, 18} : RangeInput("fontSize", value)
FontSizeTimeout == RangeTimeout("fontSize")
FontWeightChangeStep == \E value \in {400, 700} : SelectChange("fontWeight", value)
FontWeightTimeout == SelectTimeout("fontWeight")

\* Events on the debounced controls (a checkbox, a range input, the text
\* area) and arrow keys on a range input, the passing of time in steps of
\* 50 ms, and the timeouts
NextDebounce ==
  \/ HyphenationChange
  \/ FontSizeInputStep
  \/ ShortTextInputStep
  \/ RangeArrowKey
  \/ Tick
  \/ HyphenationTimeout
  \/ FontSizeTimeout
  \/ RangeArrowKeyTimeout
  \/ TextInputTimeout

SpecDebounce == Init /\ [][NextDebounce]_vars

\* The events of the user on the text area, a range input, a select, the
\* hyphenation checkbox and the ligatures checkbox
UserEvent ==
  \/ ShortTextInputStep
  \/ FontSizeInputStep
  \/ FontWeightChangeStep
  \/ HyphenationChange
  \/ LigaturesChange

\* What happens without the user: time passes, and the browser runs a
\* timeout that is due
Scheduled ==
  \/ Pause
  \/ TextInputTimeout
  \/ FontSizeTimeout
  \/ FontWeightTimeout
  \/ HyphenationTimeout

NextLive ==
  \/ UserEvent
  \/ Scheduled

\* ENABLED <<Scheduled>>_vars: time can pass, or a timeout is due
CanSchedule ==
  \/ \E t \in timers : t.remaining > 0
  \/ \E id \in DOMAIN Wait : sinceEvent[id] < Wait[id]
  \/ \E id \in {"textInput", "fontSize", "fontWeight", "hyphenation"} : Due(id) # {}

\* The browser does not stop while time can pass or a timeout is due:
\* WF_vars(Scheduled), written with its enabling condition
SpecLive ==
  /\ Init /\ [][NextLive]_vars
  /\ ([]<>~CanSchedule \/ []<><<Scheduled>>_vars)

\* The most callbacks registered at a time: an event that could take them
\* beyond waits for a frame
MaxAnimations == 3

RoomToAnimate == Len(animations) + Cardinality(DOMAIN display) <= MaxAnimations

AnimatedLoadStep ==
  \E sampleType \in {"pangram", "ligatures"} : RoomToAnimate /\ loadSampleText(sampleType)
AnimatedLigaturesChange == RoomToAnimate /\ FeatureChange("ligatures")

\* A page with the character count and layout score displays, a letter spacing of 3 px and a line
\* height of 1: samples are loaded and the ligatures checkbox changes while
\* time passes in steps of 50 ms and animation frames come
InitAnimation ==
  ConstructedOn([DefaultControls EXCEPT !.letterSpacing = 30, !.lineHeight = 100], 600,
                {"charCount", "layoutScore"})

NextAnimation ==
  \/ AnimatedLoadStep
  \/ AnimatedLigaturesChange
  \/ Tick
  \/ AnimationFrame

SpecAnimation == InitAnimation /\ [][NextAnimation]_vars

\* The widths the window is resized between, one on each side of the tablet
\* breakpoint, and the widths of the preview
Widths == {375, 1024}
PreviewWidths == {320, 600}

ResizeStep == \E width \in Widths, ow \in PreviewWidths : Resize(width, ow)

\* A page in a window 375 px wide: the controls are toggled and the window
\* is resized while time passes in steps of 50 ms
InitMobile == ConstructedAt(DefaultControls, 320, {}, 375)

NextMobile ==
  \/ ToggleControlsClick
  \/ ResizeStep
  \/ Tick
  \/ ResizeTimeout

SpecMobile == InitMobile /\ [][NextMobile]_vars

(***************************************************************************)
(* Properties                                                              *)
(***************************************************************************)
\* The file of the step just taken, when it exported one
Exported == download # << >>
ExportedCSS == download[1].content

\* C1: the stored layoutScore is an integer from 0 to 100 after any sequence
\* of text edits, sample loads and feature changes, whatever the lineHeight
\* and letterSpacing controls hold, a letterSpacing of 1000 px included.
C1_ScoreInRange == layoutScore \in 0..100

\* A sample was loaded with ligatures on and a letterSpacing of 1000 px, and
\* the score it got is below 100
C1_Witness ==
  /\ controlValue.letterSpacing = 10000
  /\ textInput = sampleTexts.lorem
  /\ SetHas(activeFeatures, "ligatures")
  /\ timers = {}
  /\ layoutScore < 100

\* The score the four rules give, from the characters metric, the rendered
\* text, the lineHeight (hundredths) and letterSpacing (tenths) controls and
\* the feature set
C2_Expected ==
  LET newlineCount == Cardinality({i \in 1..Len(textContent) : textContent[i] = 10})
      longLines == IF metrics.characters > 80 * (newlineCount + 1) THEN 1 ELSE 0
      goodHeight == IF 140 <= controlValue.lineHeight /\ controlValue.lineHeight <= 160
                      THEN 1 ELSE 0
      ligatureText == IF /\ "ligatures" \in {activeFeatures[i] : i \in 1..Len(activeFeatures)}
                         /\ \E i \in 1..(Len(textContent) - 1) :
                               /\ textContent[i] = 102
                               /\ textContent[i + 1] \in {105, 108, 102}
                        THEN 1 ELSE 0
      wideSpacing == IF controlValue.letterSpacing > 20 \/ controlValue.letterSpacing < -20
                       THEN 1 ELSE 0
      sum == 100 - 10 * longLines + 5 * goodHeight + 5 * ligatureText - 5 * wideSpacing
  IN  IF sum < 0 THEN 0 ELSE IF sum > 100 THEN 100 ELSE sum

CheckboxOrder(features) == SelectSeq(featureCheckboxes, LAMBDA f : SetHas(features, f))

\* C3 as claimed: the live font-feature-settings and the exported CSS depend
\* on the active features as an unordered set only; whatever the order of the
\* toggles, they are what checking the same boxes from first to last gives.
C3_SetDetermines ==
  /\ style.fontFeatureSettings = LiveFeatureSettings(CheckboxOrder(activeFeatures))
  /\ Exported =>
       ExportedCSS = generateCSS(getControlValues(controlValue),
                                 CheckboxOrder(activeFeatures), currentAlignment,
                                 hyphenation, layoutOptimization)

\* C3 as amended: the live font-feature-settings and the exported CSS depend
\* on the active features in their insertion order and on the other values
\* only; the export declares font-feature-settings exactly when the live
\* value is not 'normal', and then the same value.
C3_InsertionOrderDetermines ==
  /\ style.fontFeatureSettings = LiveFeatureSettings(activeFeatures)
  /\ Exported =>
       /\ ExportedCSS = generateCSS(getControlValues(controlValue), activeFeatures,
                                    currentAlignment, hyphenation, layoutOptimization)
       /\ "font-feature-settings" \in DOMAIN ExportedCSS.base
            <=> style.fontFeatureSettings # "normal"
       /\ "font-feature-settings" \in DOMAIN ExportedCSS.base
            => ExportedCSS.base["font-feature-settings"] = style.fontFeatureSettings

\* The CSS is exported with ligatures before kerning in the Set
C3_Witness ==
  /\ Exported
  /\ activeFeatures = << "ligatures", "kerning" >>

\* The entry of the fixed table for a tag
C4_Entry(tag) ==
  CASE tag = "kerning"      -> "\"kern\" 1"
    [] tag = "ligatures"    -> "\"liga\" 1, \"clig\" 1"
    [] tag = "smallCaps"    -> "\"smcp\" 1"
    [] tag = "oldstyleNums" -> "\"onum\" 1"
    [] tag = "tabularNums"  -> "\"tnum\" 1, \"lnum\" 1"
    [] tag = "fractions"    -> "\"frac\" 1"

\* The entries of the first n active features, each after the first preceded
\* by ", "
RECURSIVE C4_Joined(_)
C4_Joined(n) ==
  IF n = 0 THEN ""
  ELSE IF n = 1 THEN C4_Entry(activeFeatures[1])
  ELSE C4_Joined(n - 1) \o ", " \o C4_Entry(activeFeatures[n])

LiveDeclarations ==
  [ p \in {"font-family", "font-size", "font-weight", "letter-spacing", "line-height",
           "word-spacing", "text-align", "font-feature-settings", "hyphens",
           "text-rendering", "font-optical-sizing", "font-variant-ligatures"}
    |-> CASE p = "font-family"            -> style.fontFamily
          [] p = "font-size"              -> style.fontSize
          [] p = "font-weight"            -> style.fontWeight
          [] p = "letter-spacing"         -> style.letterSpacing
          [] p = "line-height"            -> style.lineHeight
          [] p = "word-spacing"           -> style.wordSpacing
          [] p = "text-align"             -> style.textAlign
          [] p = "font-feature-settings"  -> style.fontFeatureSettings
          [] p = "hyphens"                -> style.hyphens
          [] p = "text-rendering"         -> style.textRendering
          [] p = "font-optical-sizing"    -> style.fontOpticalSizing
          [] p = "font-variant-ligatures" -> style.fontVariantLigatures ]

\* C5 as claimed: the exported rule declares the twelve properties of the
\* live style, each with its live value.
C5_SameDeclarations == Exported => ExportedCSS.base = LiveDeclarations

\* C5 as amended: every declaration of the exported rule has the live value
\* of its property; the seven basic properties are always declared;
\* font-feature-settings is declared exactly when the live value is not
\* 'normal', hyphens exactly when the live value is 'auto', and text-rendering,
\* font-optical-sizing and font-variant-ligatures together, exactly when the
\* live text-rendering is 'optimizeLegibility'.
C5_DeclaredAgree ==
  Exported =>
    LET base == ExportedCSS.base
        declared(p) == p \in DOMAIN base
    IN  /\ DOMAIN base \subseteq DOMAIN LiveDeclarations
        /\ \A p \in DOMAIN base : base[p] = LiveDeclarations[p]
        /\ \A p \in {"font-family", "font-size", "font-weight", "letter-spacing",
                     "line-height", "word-spacing", "text-align"} : declared(p)
        /\ declared("font-feature-settings") <=> style.fontFeatureSettings # "normal"
        /\ declared("hyphens") <=> style.hyphens = "auto"
        /\ \A p \in {"text-rendering", "font-optical-sizing", "font-variant-ligatures"} :
              declared(p) <=> style.textRendering = "optimizeLegibility"

\* The CSS is exported with no feature active, justified text and both
\* layout options off: the live style has the three defaults the export omits
C5_Witness ==
  /\ Exported
  /\ activeFeatures = << >>
  /\ currentAlignment = "justify"
  /\ ~hyphenation /\ ~layoutOptimization
  /\ style.hyphens = "manual"
  /\ DOMAIN ExportedCSS.base =
       {"font-family", "font-size", "font-weight", "letter-spacing", "line-height",
        "word-spacing", "text-align"}

\* The number of maximal runs of characters of a text that are not white space
C6_Runs(text) ==
  Cardinality({i \in 1..Len(text) :
                 ~IsWhiteSpace(text[i]) /\ (i = 1 \/ IsWhiteSpace(text[i - 1]))})

\* C6: the words metric is the number of maximal runs of characters that are
\* not white space in the text it was computed from, however long the runs
\* of white space between and around them: 0 for a text of white space only,
\* and 0 for the empty text, on which calculateTextMetrics is defined too
\* although updateRendering never passes it.
C6_WordsAreRuns ==
  /\ metrics.words = C6_Runs(textContent)
  /\ calculateTextMetrics(<< >>, offsetWidth, controlValue.fontSize).words = 0

\* Two words, with white space before, after and, more than one character
\* of it, between them, were rendered and counted as 2
C6_Witness ==
  /\ timers = {}
  /\ textContent = WhiteSpaceRun(1) \o << 104, 105 >> \o WhiteSpaceRun(2)
                     \o << 121, 111, 117 >> \o WhiteSpaceRun(2)
  /\ metrics.words = 2

\* C7 as claimed: for every text, width >= 0 and font size, zero and negative
\* ones too, charsPerLine is at least 1 (Infinity counts as such) and the
\* lines metric is at least 1; where the font size is not zero, charsPerLine
\* is max(1, floor(width / (0.6 * fontSize))) and the lines metric is
\* max(1, ceil(characters / charsPerLine)).
C7_AtLeastOne ==
  LET charsPerLine == CharsPerLine(offsetWidth, controlValue.fontSize)
      fs == controlValue.fontSize
      floored == MathMax(1, MathFloorDiv(5 * offsetWidth, 3 * fs))
  IN  /\ charsPerLine.infinite \/ charsPerLine.n >= 1
      /\ metrics.lines >= 1
      /\ fs # 0 => /\ charsPerLine.n = floored
                    /\ metrics.lines = MathMax(1, MathCeilDiv(metrics.characters, floored))

\* A UTF-16 code unit that is the first, or the second, half of a pair
IsHighSurrogate(c) == c \in 55296..56319
IsLowSurrogate(c) == c \in 56320..57343

\* The number of Unicode characters of a text: its code units, less one for
\* every surrogate pair
C8_ScalarValues(text) ==
  Len(text) - Cardinality({i \in 1..(Len(text) - 1) :
                             IsHighSurrogate(text[i]) /\ IsLowSurrogate(text[i + 1])})

\* C8 as claimed: the characters metric counts a character outside the Basic
\* Multilingual Plane once.
C8_CharactersAreScalarValues == metrics.characters = C8_ScalarValues(textContent)

\* C9: the 480px block's letter-spacing is max(0, 0.8 * letterSpacing) (in
\* hundredths of a px: the control is in tenths) and never negative; for a
\* negative letter spacing it is 0 and the base rule keeps the negative value.
C9_MobileSpacingFloored ==
  Exported =>
    LET ls == controlValue.letterSpacing
    IN  /\ ExportedCSS.mobile.letterSpacing = (IF 8 * ls > 0 THEN 8 * ls ELSE 0)
        /\ ExportedCSS.mobile.letterSpacing >= 0
        /\ ExportedCSS.base["letter-spacing"] = ls
        /\ ls < 0 => ExportedCSS.mobile.letterSpacing = 0

\* The CSS is exported with a letter spacing of -3 px
C9_Witness ==
  /\ Exported
  /\ controlValue.letterSpacing = -30
  /\ ExportedCSS.base["letter-spacing"] = -30
  /\ ExportedCSS.mobile.letterSpacing = 0

\* C10: the 768px block has font-size max(14, 0.9 * fontSize) and line-height
\* max(1.2, 0.95 * lineHeight), the 480px block font-size max(12, 0.8 *
\* fontSize) of the control's font size (font sizes in tenths of a px, the
\* line height in ten-thousandths); so they are at least 14 px, 1.2 and 12 px.
C10_BreakpointSizes ==
  Exported =>
    LET fs == controlValue.fontSize
        lh == controlValue.lineHeight
    IN  /\ ExportedCSS.tablet.fontSize = (IF 9 * fs > 140 THEN 9 * fs ELSE 140)
        /\ ExportedCSS.tablet.lineHeight = (IF 95 * lh > 12000 THEN 95 * lh ELSE 12000)
        /\ ExportedCSS.mobile.fontSize = (IF 8 * fs > 120 THEN 8 * fs ELSE 120)
        /\ ExportedCSS.tablet.fontSize >= 140
        /\ ExportedCSS.mobile.fontSize >= 120

\* The CSS is exported with a font size of 72 px and a line height of 1.4:
\* 64.8 px and 1.33 at 768px, 57.6 px at 480px
C10_Witness ==
  /\ Exported
  /\ controlValue.fontSize = 72
  /\ controlValue.lineHeight = 140
  /\ ExportedCSS.tablet = [fontSize |-> 648, lineHeight |-> 13300]
  /\ ExportedCSS.mobile.fontSize = 576

\* C11: in every state, so after every updateRendering, the preview's hyphens
\* is "auto" when this.hyphenation is true and "manual" when it is false,
\* whatever the sequence of changes of the hyphenation checkbox.
C11_HyphensFollowFlag ==
  style.hyphens = (IF hyphenation THEN "auto" ELSE "manual")

\* Hyphenation was switched on (the hyphenate character was set) and off
\* again, and the preview is back to manual
C11_Witness ==
  /\ ~hyphenation
  /\ style.hyphenateCharacter = "U+2010"
  /\ style.hyphens = "manual"

\* C12: in every state the triple (text-rendering, font-optical-sizing,
\* font-variant-ligatures) of the preview is (optimizeLegibility, auto,
\* common-ligatures contextual) when this.layoutOptimization is true and
\* (auto, none, normal) when it is false; it is never mixed.
C12_Triple ==
  << style.textRendering, style.fontOpticalSizing, style.fontVariantLigatures >>
    = (IF layoutOptimization
         THEN << "optimizeLegibility", "auto", "common-ligatures contextual" >>
         ELSE << "auto", "none", "normal" >>)

\* The optimization was switched on and its checkbox is unchecked again, the
\* timeout that will switch it off still pending
C12_Witness ==
  /\ layoutOptimization
  /\ ~checked["optimizeLayout"]
  /\ timers # {}
  /\ style.textRendering = "optimizeLegibility"
  /\ style.fontOpticalSizing = "auto"
  /\ style.fontVariantLigatures = "common-ligatures contextual"

\* Lists of up to MaxTags distinct tags: two of the six, one that is no
\* property of featureMap and one that featureMap inherits
MaxTags == 2
TagProbes == {"kerning", "ligatures", "swash", "toString"}
TagLists ==
  UNION {{tags \in [1..n -> TagProbes] : \A i, j \in 1..n : i # j => tags[i] # tags[j]}
           : n \in 0..MaxTags}

\* C13 as claimed: activeFeatures holds tags of the six only, and a tag that
\* has no entry in the table contributes nothing to font-feature-settings,
\* in the live style (what applyOpenTypeFeatures leaves for a list of tags is
\* what it leaves for the tags of the six in it) and in the export.
C13_OnlyTableTagsCount ==
  /\ \A i \in 1..Len(activeFeatures) : activeFeatures[i] \in FeatureTags
  /\ \A tags \in TagLists :
        LET known == SelectSeq(tags, LAMBDA f : f \in FeatureTags)
        IN  /\ applyOpenTypeFeatures(style, tags) = applyOpenTypeFeatures(style, known)
            /\ generateCSS(getControlValues(controlValue), tags, currentAlignment,
                           hyphenation, layoutOptimization)
                 = generateCSS(getControlValues(controlValue), known, currentAlignment,
                               hyphenation, layoutOptimization)

\* The part of C13 about the states the handlers reach: activeFeatures holds
\* tags of the six only, without repetition, and they are the checked boxes
C13_ActiveAreChecked ==
  /\ \A i \in 1..Len(activeFeatures) : activeFeatures[i] \in FeatureTags
  /\ \A i, j \in 1..Len(activeFeatures) : i # j => activeFeatures[i] # activeFeatures[j]
  /\ \A f \in FeatureTags : SetHas(activeFeatures, f) <=> checked[f]

\* The part of C13 about the steps: a change of a feature checkbox adds
\* exactly its tag when it checks the box and removes exactly it when it
\* unchecks it, and no other step changes activeFeatures
C13_AddsAndRemovesOne ==
  [][LET before == {activeFeatures[i] : i \in 1..Len(activeFeatures)}
         after  == {activeFeatures'[i] : i \in 1..Len(activeFeatures')}
     IN  \/ before = after
         \/ \E f \in FeatureTags :
               /\ f \notin before /\ after = before \cup {f}
               /\ ~checked[f] /\ checked'[f]
         \/ \E f \in FeatureTags :
               /\ f \in before /\ after = before \ {f}
               /\ checked[f] /\ ~checked'[f]]_vars

\* C14: in every state currentAlignment is one of left, center, right and
\* justify (left at first), and exactly one alignment button carries
\* 'active': the one of currentAlignment.
C14_OneAlignment ==
  /\ currentAlignment \in AlignButtons
  /\ alignButtons = {currentAlignment}

\* The center button was clicked
C14_Witness ==
  /\ currentAlignment = "center"
  /\ alignButtons = {"center"}
  /\ style.textAlign = "center"

\* C17: in every state isFullscreen is true exactly when the rendering area
\* carries 'fullscreen-mode' and exactly when the button's aria-label is
\* 'Exit fullscreen'; F11 and the button flip it, Escape leaves fullscreen
\* and does nothing outside it (KeyDown).
C17_FullscreenAgrees ==
  /\ isFullscreen \in BOOLEAN
  /\ isFullscreen <=> fullscreenMode
  /\ isFullscreen <=> (fullscreenBtn.ariaLabel = "Exit fullscreen")

\* Fullscreen was entered, on a page whose alignment and features changed
C17_Witness ==
  /\ isFullscreen
  /\ fullscreenMode
  /\ fullscreenBtn.ariaLabel = "Exit fullscreen"
  /\ currentAlignment = "justify"
  /\ activeFeatures = << "smallCaps" >>

\* The style updateRendering leaves on a preview on which no property was
\* set before, for the current control values and flags
C16_FreshStyle ==
  applyLayoutOptimizations(
    applyOpenTypeFeatures(
      applyBasicStyling(UnsetStyle, getControlValues(controlValue), currentAlignment),
      activeFeatures),
    hyphenation, layoutOptimization)

\* C16 as claimed: the preview's style, hyphenate-character included, is a
\* function of the current control values and flags only; whatever the
\* history, it is the style of the history that set these values at once.
C16_NoHiddenState == style = C16_FreshStyle

\* C20 as claimed: whenever the CSS is exported, it declares hyphens exactly
\* when the hyphenation checkbox is checked, and the three layout
\* optimization properties exactly when the optimizeLayout checkbox is
\* checked, also when the export comes before the checkbox's timeout fires.
C20_ExportAgreesWithCheckboxes ==
  Exported =>
    /\ "hyphens" \in DOMAIN ExportedCSS.base <=> checked["hyphenation"]
    /\ {"text-rendering", "font-optical-sizing", "font-variant-ligatures"}
          \subseteq DOMAIN ExportedCSS.base <=> checked["optimizeLayout"]

\* The listeners whose timeouts are debounced (the arrow keys' are not)
C18_Debounced == DOMAIN Wait \ {"keydown"}

\* The value (or checked state) of a control now
C18_ValueNow(id) == IF id \in DOMAIN checked THEN checked[id] ELSE controlValue[id]

\* The callback of the timeout t runs in the step: t is pending before it,
\* and after it neither t nor a new timeout of t's listener is
C18_Runs(t) ==
  /\ t \in timers
  /\ \A u \in timers' : u.id # t.id \/ (u.args # t.args /\ u \in timers)

\* C18: a debounced listener has at most one timeout pending, the one its
\* last event set (so a burst of events ends in one run of the callback);
\* when the callback runs, the listener's wait has passed since the last
\* event on its control, and the arguments it runs with are that event's.
C18_Coalesced ==
  /\ [](\A t, u \in timers : (t.id \in C18_Debounced /\ t.id = u.id) => t = u)
  /\ [][\A t \in timers :
          (t.id \in C18_Debounced /\ C18_Runs(t)) =>
             /\ t.remaining = 0
             /\ sinceEvent[t.id] = Wait[t.id]
             /\ t.args # << >> =>
                   /\ t.args[1].target = t.id
                   /\ t.args[1].value = C18_ValueNow(t.id)]_vars

\* The hyphenation checkbox was checked and, 50 ms later, unchecked, and 50
\* ms have passed since: one timeout is pending, bound to the second event,
\* and the callback has not run (no hyphenate character was ever set)
C18_Witness ==
  /\ timers = {[id |-> "hyphenation", remaining |-> 1,
                args |-> << Event("hyphenation", FALSE) >>]}
  /\ sinceEvent.hyphenation = 1
  /\ ~hyphenation
  /\ style.hyphenateCharacter = ""

\* The preview shows what updateRendering gives for the text, the control
\* values and the checkboxes as they are now: running it would change nothing
C15_Rendered ==
  LET text == IF textInput = << >> THEN Placeholder ELSE textInput
  IN  /\ \A f \in FeatureTags : SetHas(activeFeatures, f) <=> checked[f]
      /\ hyphenation = checked["hyphenation"]
      /\ layoutOptimization = checked["optimizeLayout"]
      /\ textContent = text
      /\ style = applyLayoutOptimizations(
                   applyOpenTypeFeatures(
                     applyBasicStyling(style, getControlValues(controlValue),
                                       currentAlignment),
                     activeFeatures),
                   checked["hyphenation"], checked["optimizeLayout"])
      /\ metrics = calculateTextMetrics(text, offsetWidth, controlValue.fontSize)
      /\ layoutScore = calculateLayoutScore(text, controlValue.lineHeight,
                                            controlValue.letterSpacing, activeFeatures)
      /\ activeCount = Len(activeFeatures)

C19_DisplaysConverge ==
  animations = << >> =>
    /\ display["charCount"] = metrics.characters
    /\ display["layoutScore"] = layoutScore

\* C21 as claimed: in every state isMobileControlsOpen is true exactly when
\* the controls wrapper carries the class 'show', the wrapper's aria-hidden
\* is the negation of isMobileControlsOpen, and the toggle button's
\* aria-expanded equals isMobileControlsOpen.
C21_MobileControlsAgree ==
  /\ isMobileControlsOpen <=> controlsWrapper.show
  /\ controlsWrapper.ariaHidden = BooleanString(~isMobileControlsOpen)
  /\ toggleBtn.ariaExpanded = BooleanString(isMobileControlsOpen)

====
